---- MODULE Spec2Model ----
(***************************************************************************)
(* si7021: I2C driver for the Silicon Labs Si7021 hygrometer/thermometer.  *)
(* Model of src/src/lib.rs: the driver Si7021<T> around an I2CDevice, its  *)
(* command/response exchange (read_word), the three measurement            *)
(* operations and the two conversion functions, computed in IEEE-754       *)
(* binary32 arithmetic (round to nearest, ties to even) as the code does.  *)
(***************************************************************************)
EXTENDS Integers, Sequences, FiniteSets, TLC

VARIABLES
    transport,  \* the I2CDevice handle while the caller still holds it, or Moved
    si7021,     \* the driver: NoDriver, or [device |-> the wrapped I2CDevice]
    calls,      \* what the caller has observed: one record per measurement call
    raw,        \* conversion specification: the raw 16-bit code under test
    out         \* conversion specification: the conversions applied to raw

vars == <<transport, si7021, calls, raw, out>>

(***************************************************************************)
(* Bounds of the model (not program constants).                            *)
(***************************************************************************)
\* measurement calls per behaviour of the protocol specification
MaxCalls == 2
\* distinct transport errors the stub can answer with
NumErrors == 2

(***************************************************************************)
(* Program constants.                                                      *)
(***************************************************************************)
\* lib.rs:18-20
MEASURE_RELATIVE_HUMIDITY == 229
MEASURE_TEMPERATURE == 227
READ_TEMPERATURE == 224
\* the largest u8 (lib.rs:47) and the largest u16 (lib.rs:79)
U8_MAX == 255
U16_MAX == 65535

(***************************************************************************)
(* IEEE-754 binary32 arithmetic.  A float is [neg, m, e], the value        *)
(* (-1)^neg * m * 2^e with m < 2^24; kept canonical (m odd, or the zero    *)
(* [FALSE, 0, 0]) so that equal values are equal records.  Every           *)
(* intermediate value of the two conversions is far from the subnormal and *)
(* overflow ranges, so the exponent is unbounded here.  Exact intermediate *)
(* results are wider than TLC's 32-bit integers and are held as            *)
(* [hi, lo] = hi * 4096 + lo.                                              *)
(***************************************************************************)
Pow2[k \in 0..30] == IF k = 0 THEN 1 ELSE 2 * Pow2[k - 1]

RECURSIVE BitLen(_)
BitLen(n) == IF n = 0 THEN 0 ELSE 1 + BitLen(n \div 2)

RECURSIVE TrailingZeros(_)
TrailingZeros(n) == IF n % 2 = 1 THEN 0 ELSE 1 + TrailingZeros(n \div 2)

F32Zero == [neg |-> FALSE, m |-> 0, e |-> 0]

F32Norm(x) ==
    IF x.m = 0 THEN F32Zero
    ELSE LET z == TrailingZeros(x.m)
         IN  [neg |-> x.neg, m |-> x.m \div Pow2[z], e |-> x.e + z]

\* m * 2^k as a wide integer (m < 2^24, k <= 18)
WShl(m, k) ==
    LET p == (m % 4096) * Pow2[k]
    IN  [hi |-> (m \div 4096) * Pow2[k] + p \div 4096, lo |-> p % 4096]

WLess(a, b) == a.hi < b.hi \/ (a.hi = b.hi /\ a.lo < b.lo)

WAdd(a, b) ==
    [hi |-> a.hi + b.hi + (a.lo + b.lo) \div 4096, lo |-> (a.lo + b.lo) % 4096]

\* a - b for b <= a
WSub(a, b) ==
    IF a.lo >= b.lo THEN [hi |-> a.hi - b.hi, lo |-> a.lo - b.lo]
    ELSE [hi |-> a.hi - b.hi - 1, lo |-> a.lo + 4096 - b.lo]

\* the binary32 nearest to the wide integer w times 2^e, ties to even
F32Round(neg, w, e) ==
    LET len == IF w.hi = 0 THEN BitLen(w.lo) ELSE BitLen(w.hi) + 12
        s   == IF len <= 24 THEN 0 ELSE len - 24
        trunc == IF s = 0 THEN w.hi * 4096 + w.lo
                 ELSE IF s <= 12 THEN w.hi * Pow2[12 - s] + w.lo \div Pow2[s]
                 ELSE w.hi \div Pow2[s - 12]
        rem == IF s = 0 THEN 0
               ELSE IF s <= 12 THEN w.lo % Pow2[s]
               ELSE (w.hi % Pow2[s - 12]) * 4096 + w.lo
        half == IF s = 0 THEN 1 ELSE Pow2[s - 1]
        up == s > 0 /\ (rem > half \/ (rem = half /\ trunc % 2 = 1))
        m  == IF up THEN trunc + 1 ELSE trunc
    IN  F32Norm([neg |-> neg, m |-> m, e |-> e + s])

\* `raw as f32`: every u16 is exactly representable
F32FromU16(n) == F32Norm([neg |-> FALSE, m |-> n, e |-> 0])

\* a * b, for a product of the mantissas below 2^43
F32Mul(a, b) ==
    LET ah == a.m \div 4096
        al == a.m % 4096
        bh == b.m \div 4096
        bl == b.m % 4096
        w  == [hi |-> ah * bh * 4096 + ah * bl + al * bh + (al * bl) \div 4096,
               lo |-> (al * bl) % 4096]
    IN  F32Round(a.neg # b.neg, w, a.e + b.e)

\* a / 2^k: exact, the quotient being a normal number
F32DivPow2(a, k) == F32Norm([neg |-> a.neg, m |-> a.m, e |-> a.e - k])

F32Neg(a) == IF a.m = 0 THEN a ELSE [neg |-> ~a.neg, m |-> a.m, e |-> a.e]

\* a + b, exactly aligned and rounded once
F32Add(a, b) ==
    LET e  == IF a.e < b.e THEN a.e ELSE b.e
        wa == WShl(a.m, a.e - e)
        wb == WShl(b.m, b.e - e)
    IN  IF a.neg = b.neg THEN F32Round(a.neg, WAdd(wa, wb), e)
        ELSE IF WLess(wa, wb) THEN F32Round(b.neg, WSub(wb, wa), e)
        ELSE F32Round(a.neg, WSub(wa, wb), e)

F32Sub(a, b) == F32Add(a, F32Neg(b))

\* a < b
F32Lt(a, b) ==
    LET d == F32Sub(a, b)
    IN  d.neg /\ d.m # 0

\* f32::max and f32::min (no NaN arises here)
F32Max(a, b) == IF F32Lt(a, b) THEN b ELSE a

F32Min(a, b) == IF F32Lt(b, a) THEN b ELSE a

\* the f32 literals of lib.rs:80 and lib.rs:85, each the binary32 nearest to
\* the decimal: 175.72 = 11515986 * 2^-16, 46.85 = 12281446 * 2^-18
F32_125 == F32Norm([neg |-> FALSE, m |-> 125, e |-> 0])

F32_6 == F32Norm([neg |-> FALSE, m |-> 6, e |-> 0])

F32_0 == F32Zero

F32_100 == F32Norm([neg |-> FALSE, m |-> 100, e |-> 0])

F32_175_72 == F32Norm([neg |-> FALSE, m |-> 11515986, e |-> -16])

F32_46_85 == F32Norm([neg |-> FALSE, m |-> 12281446, e |-> -18])

(***************************************************************************)
(* Raw reading conversion, lib.rs:79-86.                                   *)
(***************************************************************************)
\* faulty variant: the clamp of lib.rs:81 left out
calculate_relative_humidity_unclamped(raw_humidity) ==
    F32Sub(F32DivPow2(F32Mul(F32_125, F32FromU16(raw_humidity)), 16), F32_6)

\* faulty variant: the offset `- 6.0` of lib.rs:80 left out
calculate_relative_humidity_no_offset(raw_humidity) ==
    LET relative_humidity == F32DivPow2(F32Mul(F32_125, F32FromU16(raw_humidity)), 16)
    IN  F32Min(F32Max(relative_humidity, F32_0), F32_100)

calculate_relative_humidity(raw_humidity) ==
    LET relative_humidity ==
            F32Sub(F32DivPow2(F32Mul(F32_125, F32FromU16(raw_humidity)), 16), F32_6)
    IN  F32Min(F32Max(relative_humidity, F32_0), F32_100)

\* faulty variant: the humidity clamp applied to the temperature as well
calculate_temperature_clamped(raw_temperature) ==
    LET celsius ==
            F32Sub(F32DivPow2(F32Mul(F32_175_72, F32FromU16(raw_temperature)), 16),
                   F32_46_85)
    IN  F32Min(F32Max(celsius, F32_0), F32_100)

calculate_temperature(raw_temperature) ==
    F32Sub(F32DivPow2(F32Mul(F32_175_72, F32FromU16(raw_temperature)), 16), F32_46_85)

(***************************************************************************)
(* Result<T, E>.                                                           *)
(***************************************************************************)
Ok(v) == [tag |-> "Ok", val |-> v]

Err(e) == [tag |-> "Err", err |-> e]

IsErr(r) == r.tag = "Err"

\* the unit value of Result<(), E>
Unit == <<>>

(***************************************************************************)
(* The I2CDevice the driver is generic over (lib.rs:10, 29), as a stub     *)
(* that records every operation asked of it and answers from a script:     *)
(* script.w is its answer to a write, script.r its answer to a read (the   *)
(* bytes it delivers, or a transport error).                               *)
(***************************************************************************)
Errors == 1..NumErrors

\* byte pairs the stub delivers in the protocol specification
SampleReads == {<<0, 0>>, <<134, 102>>, <<102, 134>>, <<255, 255>>}

Bytes == 0..U8_MAX

AllReads == {<<b0, b1>> : b0 \in Bytes, b1 \in Bytes}

\* the scripts of a call: after a failed write the stub would answer a read
\* either with the same error or with bytes
Scripts(reads) ==
    {[w |-> Ok(Unit), r |-> Ok(b)] : b \in reads}
    \cup {[w |-> Ok(Unit), r |-> Err(e)] : e \in Errors}
    \cup {[w |-> Err(e), r |-> Err(e)] : e \in Errors}
    \cup {[w |-> Err(e), r |-> Ok(<<134, 102>>)] : e \in Errors}

WriteEntry(data, res) == [op |-> "write", data |-> data, len |-> Len(data), res |-> res]

ReadEntry(len, res) == [op |-> "read", data |-> <<>>, len |-> len, res |-> res]

\* I2CDevice::write(&mut self, data: &[u8]) -> Result<(), Error>
device_write(device, data, script) ==
    [device |-> [log |-> Append(device.log, WriteEntry(data, script.w))],
     ret    |-> script.w]

\* I2CDevice::read(&mut self, data: &mut [u8]) -> Result<(), Error>
device_read(device, buf, script) ==
    [device |-> [log |-> Append(device.log, ReadEntry(Len(buf), script.r))],
     buf    |-> IF IsErr(script.r) THEN buf
                ELSE [i \in 1..Len(buf) |->
                         IF i <= Len(script.r.val) THEN script.r.val[i] ELSE buf[i]],
     ret    |-> IF IsErr(script.r) THEN script.r ELSE Ok(Unit)]

\* faulty variant: the two bytes decoded little-endian
LittleEndian_read_u16(buf) == buf[2] * 256 + buf[1]

\* byteorder::BigEndian::read_u16(&buf)
BigEndian_read_u16(buf) == buf[1] * 256 + buf[2]

(***************************************************************************)
(* The driver, lib.rs:24-77.  Each operation takes the driver (&mut self)  *)
(* and returns the driver afterwards and the value returned to the caller; *)
(* `local` is the binding `let raw_... = self.read_word(..)?`, empty when  *)
(* the `?` returned early.                                                 *)
(***************************************************************************)
NoDriver == <<>>

Moved == <<>>

\* faulty variant: construction resets the sensor (command 0xFE)
new_with_reset(device) ==
    [device |-> [log |-> Append(device.log, WriteEntry(<<254>>, Ok(Unit)))]]

\* lib.rs:32-36
new(device) == [device |-> device]

\* faulty variant: the read issued before the command is written
read_word_reads_first(self, command, script) ==
    LET buf == <<0, 0>>
        r   == device_read(self.device, buf, script)
    IN  IF IsErr(r.ret) THEN [self |-> [device |-> r.device], ret |-> Err(r.ret.err)]
        ELSE LET w == device_write(r.device, <<command>>, script)
             IN  IF IsErr(w.ret)
                 THEN [self |-> [device |-> w.device], ret |-> Err(w.ret.err)]
                 ELSE [self |-> [device |-> w.device],
                       ret  |-> Ok(BigEndian_read_u16(r.buf))]

\* faulty variant: the result of the write dropped (no `?` on lib.rs:48)
read_word_ignores_write_error(self, command, script) ==
    LET buf == <<0, 0>>
        w   == device_write(self.device, <<command>>, script)
        r   == device_read(w.device, buf, script)
    IN  IF IsErr(r.ret) THEN [self |-> [device |-> r.device], ret |-> Err(r.ret.err)]
        ELSE [self |-> [device |-> r.device], ret |-> Ok(BigEndian_read_u16(r.buf))]

\* faulty variant: a failed read is retried once
read_word_retries_read(self, command, script) ==
    LET buf == <<0, 0>>
        w   == device_write(self.device, <<command>>, script)
    IN  IF IsErr(w.ret) THEN [self |-> [device |-> w.device], ret |-> Err(w.ret.err)]
        ELSE LET r1 == device_read(w.device, buf, script)
                 r  == IF IsErr(r1.ret) THEN device_read(r1.device, buf, script) ELSE r1
             IN  IF IsErr(r.ret)
                 THEN [self |-> [device |-> r.device], ret |-> Err(r.ret.err)]
                 ELSE [self |-> [device |-> r.device],
                       ret  |-> Ok(BigEndian_read_u16(r.buf))]

\* faulty variant: an error state is latched; after a failed transport operation
\* the driver answers with that error and leaves the bus alone
read_word_latches_error(self, command, script) ==
    LET buf == <<0, 0>>
        log == self.device.log
    IN  IF log # <<>> /\ IsErr(log[Len(log)].res)
        THEN [self |-> self, ret |-> Err(log[Len(log)].res.err)]
        ELSE LET w == device_write(self.device, <<command>>, script)
             IN  IF IsErr(w.ret)
                 THEN [self |-> [device |-> w.device], ret |-> Err(w.ret.err)]
                 ELSE LET r == device_read(w.device, buf, script)
                      IN  IF IsErr(r.ret)
                          THEN [self |-> [device |-> r.device], ret |-> Err(r.ret.err)]
                          ELSE [self |-> [device |-> r.device],
                                ret  |-> Ok(BigEndian_read_u16(r.buf))]

\* lib.rs:46-52
read_word(self, command, script) ==
    LET buf == <<0, 0>>
        w   == device_write(self.device, <<command>>, script)
    IN  IF IsErr(w.ret) THEN [self |-> [device |-> w.device], ret |-> Err(w.ret.err)]
        ELSE LET r == device_read(w.device, buf, script)
             IN  IF IsErr(r.ret)
                 THEN [self |-> [device |-> r.device], ret |-> Err(r.ret.err)]
                 ELSE [self |-> [device |-> r.device],
                       ret  |-> Ok(BigEndian_read_u16(r.buf))]

\* lib.rs:40-44
last_temperature(self, script) ==
    LET rw == read_word(self, READ_TEMPERATURE, script)
    IN  IF IsErr(rw.ret) THEN [self |-> rw.self, local |-> <<>>, ret |-> Err(rw.ret.err)]
        ELSE LET raw_temperature == rw.ret.val
             IN  [self |-> rw.self, local |-> <<raw_temperature>>,
                  ret |-> Ok(calculate_temperature(raw_temperature))]

\* lib.rs:60-64
relative_humidity(self, script) ==
    LET rw == read_word(self, MEASURE_RELATIVE_HUMIDITY, script)
    IN  IF IsErr(rw.ret) THEN [self |-> rw.self, local |-> <<>>, ret |-> Err(rw.ret.err)]
        ELSE LET raw_humidity == rw.ret.val
             IN  [self |-> rw.self, local |-> <<raw_humidity>>,
                  ret |-> Ok(calculate_relative_humidity(raw_humidity))]

\* faulty variant: the command of last_temperature sent instead
temperature_celsius_wrong_command(self, script) ==
    LET rw == read_word(self, READ_TEMPERATURE, script)
    IN  IF IsErr(rw.ret) THEN [self |-> rw.self, local |-> <<>>, ret |-> Err(rw.ret.err)]
        ELSE LET raw_temperature == rw.ret.val
             IN  [self |-> rw.self, local |-> <<raw_temperature>>,
                  ret |-> Ok(calculate_temperature(raw_temperature))]

\* lib.rs:72-76
temperature_celsius(self, script) ==
    LET rw == read_word(self, MEASURE_TEMPERATURE, script)
    IN  IF IsErr(rw.ret) THEN [self |-> rw.self, local |-> <<>>, ret |-> Err(rw.ret.err)]
        ELSE LET raw_temperature == rw.ret.val
             IN  [self |-> rw.self, local |-> <<raw_temperature>>,
                  ret |-> Ok(calculate_temperature(raw_temperature))]

(***************************************************************************)
(* The caller.  It holds a transport handle, which it may already have     *)
(* used, wraps it in a driver, and then invokes measurement operations in  *)
(* any order; `calls` is what it observes of each: the operation, the      *)
(* stub's script during the call, the stub's log length before and after,  *)
(* and the value returned.                                                 *)
(***************************************************************************)
PriorLogs == {<<>>, <<WriteEntry(<<0>>, Ok(Unit))>>}

Log == IF si7021 = NoDriver THEN transport[1].log ELSE si7021[1].device.log

Observed(op, script, r) ==
    [op     |-> op,
     script |-> script,
     before |-> Len(si7021[1].device.log),
     after  |-> Len(r.self.device.log),
     local  |-> r.local,
     ret    |-> r.ret]

New ==
    /\ si7021 = NoDriver
    /\ transport # Moved
    /\ si7021' = <<new(transport[1])>>
    /\ transport' = Moved
    /\ UNCHANGED <<calls, raw, out>>

RelativeHumidity(scripts, limit) ==
    /\ si7021 # NoDriver
    /\ Len(calls) < limit
    /\ \E script \in scripts :
          LET r == relative_humidity(si7021[1], script)
          IN  /\ si7021' = <<r.self>>
              /\ calls' = Append(calls, Observed("relative_humidity", script, r))
    /\ UNCHANGED <<transport, raw, out>>

TemperatureCelsius(scripts, limit) ==
    /\ si7021 # NoDriver
    /\ Len(calls) < limit
    /\ \E script \in scripts :
          LET r == temperature_celsius(si7021[1], script)
          IN  /\ si7021' = <<r.self>>
              /\ calls' = Append(calls, Observed("temperature_celsius", script, r))
    /\ UNCHANGED <<transport, raw, out>>

LastTemperature(scripts, limit) ==
    /\ si7021 # NoDriver
    /\ Len(calls) < limit
    /\ \E script \in scripts :
          LET r == last_temperature(si7021[1], script)
          IN  /\ si7021' = <<r.self>>
              /\ calls' = Append(calls, Observed("last_temperature", script, r))
    /\ UNCHANGED <<transport, raw, out>>

\* Protocol specification: any sequence of up to MaxCalls operations.
Init ==
    /\ transport \in {<<[log |-> l]>> : l \in PriorLogs}
    /\ si7021 = NoDriver
    /\ calls = <<>>
    /\ raw = 0
    /\ out = <<>>

Next ==
    \/ New
    \/ RelativeHumidity(Scripts(SampleReads), MaxCalls)
    \/ TemperatureCelsius(Scripts(SampleReads), MaxCalls)
    \/ LastTemperature(Scripts(SampleReads), MaxCalls)

Spec == Init /\ [][Next]_vars

\* Word specification: one exchange on a fresh driver, the transport
\* succeeding and delivering every possible pair of bytes.
WordScripts == {[w |-> Ok(Unit), r |-> Ok(b)] : b \in AllReads}

InitWord ==
    /\ transport = Moved
    /\ si7021 = <<new([log |-> <<>>])>>
    /\ calls = <<>>
    /\ raw = 0
    /\ out = <<>>

NextWord ==
    \/ RelativeHumidity(WordScripts, 1)
    \/ TemperatureCelsius(WordScripts, 1)
    \/ LastTemperature(WordScripts, 1)

SpecWord == InitWord /\ [][NextWord]_vars

\* Conversion specification: each conversion applied to every raw code.
ApplyHumidity ==
    /\ out = <<>>
    /\ out' = <<[fn |-> "humidity", val |-> calculate_relative_humidity(raw)]>>
    /\ UNCHANGED <<transport, si7021, calls, raw>>

ApplyTemperature ==
    /\ out = <<>>
    /\ out' = <<[fn |-> "temperature", val |-> calculate_temperature(raw)]>>
    /\ UNCHANGED <<transport, si7021, calls, raw>>

InitConv ==
    /\ transport = Moved
    /\ si7021 = NoDriver
    /\ calls = <<>>
    /\ raw \in 0..U16_MAX
    /\ out = <<>>

NextConv == ApplyHumidity \/ ApplyTemperature

SpecConv == InitConv /\ [][NextConv]_vars

(***************************************************************************)
(* Properties.                                                             *)
(***************************************************************************)
\* the transport operations a call performed, as the stub recorded them
Segment(c) == SubSeq(Log, c.before + 1, c.after)

TransportSucceeds(c) == ~IsErr(c.script.w) /\ ~IsErr(c.script.r)

WriteFails(c) == IsErr(c.script.w)

ReadFails(c) == ~IsErr(c.script.w) /\ IsErr(c.script.r)

\* the command byte the specification gives each operation
SpecCommand(op) ==
    CASE op = "relative_humidity" -> 229
      [] op = "temperature_celsius" -> 227
      [] op = "last_temperature" -> 224

\* floor(x * 2^16) of a float of magnitude below 2^15
Floor16(x) ==
    LET a == IF x.e >= -16 THEN x.m * Pow2[x.e + 16] ELSE x.m \div Pow2[-16 - x.e]
    IN  IF x.neg /\ x.e >= -16 THEN -a
        ELSE IF x.neg THEN -a - 1
        ELSE a

\* x * 2^16 is an integer
Exact16(x) == x.e >= -16

Dist(a, b) == IF a < b THEN b - a ELSE a - b

Clamp(x, lo, hi) == IF x < lo THEN lo ELSE IF x > hi THEN hi ELSE x

\* C1: when the transport succeeds, a measurement call performs exactly one
\* write of a single byte and then exactly one read of a 2-byte buffer, and
\* nothing else on the transport, and returns a value.
C1Theorem ==
    \A i \in DOMAIN calls :
        TransportSucceeds(calls[i]) =>
            LET seg == Segment(calls[i])
            IN  /\ Len(seg) = 2
                /\ seg[1].op = "write" /\ seg[1].len = 1
                /\ seg[2].op = "read" /\ seg[2].len = 2
                /\ ~IsErr(calls[i].ret)

C1Witness ==
    \E i \in DOMAIN calls :
        /\ TransportSucceeds(calls[i])
        /\ calls[i].op = "last_temperature"
        /\ calls[i].after = calls[i].before + 2

\* C2: when the transport's write fails, the call returns exactly that error
\* and the failed write is the only transport operation of the call.
C2Theorem ==
    \A i \in DOMAIN calls :
        WriteFails(calls[i]) =>
            LET seg == Segment(calls[i])
            IN  /\ calls[i].ret = Err(calls[i].script.w.err)
                /\ Len(seg) = 1
                /\ seg[1].op = "write"

C2Witness ==
    \E i \in DOMAIN calls :
        /\ WriteFails(calls[i])
        /\ ~IsErr(calls[i].script.r)
        /\ IsErr(calls[i].ret)

\* C3: when the write succeeds and the read fails, the call returns exactly
\* the read's error, performs nothing after the failed read (one write, one
\* read), and binds no raw reading.
C3Theorem ==
    \A i \in DOMAIN calls :
        ReadFails(calls[i]) =>
            LET seg == Segment(calls[i])
            IN  /\ calls[i].ret = Err(calls[i].script.r.err)
                /\ Len(seg) = 2
                /\ seg[1].op = "write"
                /\ seg[2].op = "read" /\ seg[2].res = calls[i].script.r
                /\ calls[i].local = <<>>

C3Witness ==
    \E i \in DOMAIN calls :
        /\ ReadFails(calls[i])
        /\ calls[i].op = "relative_humidity"
        /\ IsErr(calls[i].ret)

\* C4: every write a measurement call performs carries exactly one byte, the
\* command of that operation: 0xE5, 0xE3 or 0xE0.
C4Theorem ==
    \A i \in DOMAIN calls :
        \A k \in (calls[i].before + 1)..calls[i].after :
            Log[k].op = "write" => Log[k].data = <<SpecCommand(calls[i].op)>>

C4Witness ==
    /\ Len(calls) = 2
    /\ calls[1].op = "temperature_celsius"
    /\ calls[2].op = "relative_humidity"
    /\ Log[calls[1].before + 1].data = <<227>>
    /\ Log[calls[2].before + 1].data = <<229>>

\* C5: the humidity of every raw code r is exactly 125*r/65536 - 6 saturated
\* into [0, 100]; humidity(0) = 0.0 and humidity(65535) = 100.0.
C5Theorem ==
    \A i \in DOMAIN out :
        out[i].fn = "humidity" =>
            /\ Exact16(out[i].val)
            /\ Floor16(out[i].val) = Clamp(125 * raw - 6 * 65536, 0, 100 * 65536)
            /\ raw = 0 => out[i].val = [neg |-> FALSE, m |-> 0, e |-> 0]
            /\ raw = 65535 => out[i].val = [neg |-> FALSE, m |-> 25, e |-> 2]

C5Witness ==
    \E i \in DOMAIN out :
        /\ out[i].fn = "humidity"
        /\ raw = 65535
        /\ Floor16(out[i].val) = 100 * 65536

\* C6 as stated: humidity(34406) is unclamped and within 0.005 of 65.66.
C6Original ==
    \A i \in DOMAIN out :
        (out[i].fn = "humidity" /\ raw = 34406) =>
            /\ Floor16(out[i].val) = 125 * raw - 6 * 65536
            /\ Dist(100 * Floor16(out[i].val), 6566 * 65536) <= 32768

\* C6, amended: humidity(34406) is unclamped and within 0.005 of 59.62
\* (125*34406/65536 - 6 = 59.6242...).
C6Theorem ==
    \A i \in DOMAIN out :
        (out[i].fn = "humidity" /\ raw = 34406) =>
            /\ Exact16(out[i].val)
            /\ Floor16(out[i].val) = 125 * raw - 6 * 65536
            /\ Floor16(out[i].val) > 0 /\ Floor16(out[i].val) < 100 * 65536
            /\ Dist(100 * Floor16(out[i].val), 5962 * 65536) <= 32768

C6Witness ==
    \E i \in DOMAIN out :
        /\ out[i].fn = "humidity"
        /\ raw = 34406
        /\ Floor16(out[i].val) = 3907534

\* C7: the temperature of every raw code r is 175.72*r/65536 - 46.85 to
\* within 2^-15, unclamped: temperature(0) is the float -46.85,
\* temperature(65535) is within 0.005 of 128.87 and above 100, and the
\* result is strictly increasing in r.
C7Theorem ==
    \A i \in DOMAIN out :
        out[i].fn = "temperature" =>
            /\ Dist(100 * Floor16(out[i].val), 17572 * raw - 4685 * 65536) <= 200
            /\ raw = 0 => out[i].val = [neg |-> TRUE, m |-> 6140723, e |-> -17]
            /\ raw = 65535 =>
                   /\ Dist(100 * Floor16(out[i].val), 12887 * 65536) <= 32768
                   /\ Floor16(out[i].val) > 100 * 65536
            /\ raw < 65535 =>
                   Floor16(out[i].val) < Floor16(calculate_temperature(raw + 1))

C7Witness ==
    \E i \in DOMAIN out :
        /\ out[i].fn = "temperature"
        /\ raw = 65535
        /\ Floor16(out[i].val) > 128 * 65536

\* C8: the raw reading bound by a successful call is 256*b0 + b1, where
\* <<b0, b1>> are the bytes the transport's read delivered, in wire order.
C8Theorem ==
    \A i \in DOMAIN calls :
        ~IsErr(calls[i].ret) =>
            LET bytes == Log[calls[i].after].res.val
            IN  /\ Log[calls[i].after].op = "read"
                /\ calls[i].local = <<256 * bytes[1] + bytes[2]>>

C8Witness ==
    \E i \in DOMAIN calls :
        /\ calls[i].op = "relative_humidity"
        /\ Log[calls[i].after].res = Ok(<<134, 102>>)
        /\ calls[i].local = <<34406>>

\* C9: construction leaves the transport as it was handed over: until a
\* measurement operation is invoked no step changes the recorded traffic,
\* and the step that constructs the driver yields a driver holding the
\* caller's transport unchanged.
C9Theorem ==
    [][/\ calls' = <<>> => Log' = Log
       /\ (si7021 = NoDriver /\ si7021' # NoDriver) =>
              si7021' = <<[device |-> transport[1]]>>]_vars

C9Witness ==
    /\ si7021 # NoDriver
    /\ transport = Moved
    /\ calls = <<>>
    /\ Len(Log) = 1

\* the operation `op` invoked on driver `self`
Invoke(op, self, script) ==
    CASE op = "relative_humidity" -> relative_humidity(self, script)
      [] op = "temperature_celsius" -> temperature_celsius(self, script)
      [] op = "last_temperature" -> last_temperature(self, script)

\* C10: whatever operations came before, a call returns what the same
\* operation returns on a freshly constructed driver given the same answers
\* from the transport, and performs the same transport operations, the
\* first of them a write.
C10Theorem ==
    \A i \in DOMAIN calls :
        LET fresh == Invoke(calls[i].op, new([log |-> <<>>]), calls[i].script)
            seg   == Segment(calls[i])
        IN  /\ calls[i].ret = fresh.ret
            /\ seg = fresh.self.device.log
            /\ Len(seg) >= 1
            /\ seg[1].op = "write"

C10Witness ==
    /\ Len(calls) = 2
    /\ IsErr(calls[1].ret)
    /\ calls[1].op = "temperature_celsius"
    /\ calls[2].op = "last_temperature"
    /\ ~IsErr(calls[2].ret)
    /\ calls[2].after = calls[2].before + 2

====
